---- MODULE Spec2Model ----
(***************************************************************************)
(* Incident Triage Pipeline: the SQLite incident store (db_manager.py),    *)
(* the classification orchestrator (gemini_analyzer.py) and the cycle      *)
(* coordinator (incident_processor.py).                                    *)
(*                                                                         *)
(* Granularity: one step per committed SQLite transaction.  insert_analysis*)
(* commits the analysis row and then calls update_incident_status, which   *)
(* opens its own connection and commits on its own, so it is two steps.    *)
(***************************************************************************)
EXTENDS Integers, Sequences, FiniteSets, TLC

\* ------------------------------------------------------------------ bounds
MaxInserts == 2       \* successful insert_incident calls (downloaded_at clock)
MaxAnalysisId == 2    \* analysis rows ever inserted (AUTOINCREMENT ids)
MaxRuns == 2          \* run_full_cycle invocations
MaxLimit == 2         \* largest limit handed to get_pending_incidents
MaxFeedback == 2      \* feedback rows ever inserted (AUTOINCREMENT ids)

\* ------------------------------------------------------------------ values
NULL == "NULL"
IncidentIds == {"INC-1", "INC-2"}
\* incident_date values: before the purge cutoff, after it, or missing
OldDate == "2020-01-01"
NewDate == "2999-01-01"

\* dict.get(key) and dict.get(key, default) of Python
Get(d, k) == IF k \in DOMAIN d THEN d[k] ELSE NULL
GetOr(d, k, def) == IF k \in DOMAIN d THEN d[k] ELSE def

\* Records handed to insert_incident.  The acquisition record always carries
\* status 'downloaded' and a date; other callers of the store may omit either
\* or pass another status.
IncidentRecords ==
  UNION { { [incident_id |-> i, cyberhaven_data |-> "m1", status |-> "downloaded",
             incident_date |-> NewDate],
            [incident_id |-> i, cyberhaven_data |-> "m2", incident_date |-> OldDate],
            [incident_id |-> i, cyberhaven_data |-> "m1", status |-> "downloaded"],
            [incident_id |-> i, cyberhaven_data |-> "m2", status |-> "analyzed",
             incident_date |-> OldDate] } : i \in IncidentIds }

\* Status arguments of update_incident_status
StatusArgs == {"downloaded", "analyzed", "archived"}

\* Payloads handed to insert_analysis: a complete one, and one shaped like the
\* dict analyze_incident builds (no executive_summary, risk_level, tokens_used).
AnalysisPayloads ==
  UNION { { [incident_id |-> i, gemini_verdict |-> "TRUE_POSITIVE",
             gemini_confidence |-> 9, gemini_reasoning |-> "r1",
             gemini_raw_response |-> "raw1", executive_summary |-> "s1",
             risk_level |-> "HIGH", processing_time |-> 1, tokens_used |-> 5],
            [incident_id |-> i, gemini_verdict |-> "FALSE_POSITIVE",
             gemini_confidence |-> 5, gemini_reasoning |-> "r2",
             gemini_raw_response |-> "raw2", processing_time |-> 2] }
          : i \in IncidentIds }

VARIABLES
  incidents,      \* table incidents: set of rows
  analysis,       \* table analysis: set of rows
  processing_log, \* table processing_log: sequence of rows
  clock,          \* datetime.now() as a logical clock (one tick per stored incident)
  analysisSeq,    \* sqlite_sequence of table analysis (AUTOINCREMENT)
  dirs,           \* incident ids whose directory (with metadata.json) exists on disk
  feedback,       \* table feedback: set of rows
  feedbackSeq,    \* sqlite_sequence of table feedback (AUTOINCREMENT)
  fbClock,        \* CURRENT_TIMESTAMP of the latest feedback row, in whole seconds
  cpc,            \* store client: "idle", or "status" between the two transactions of insert_analysis
  carg,           \* store client: the analysis_data of the insert_analysis in progress
  last,           \* the most recent completed store call of the client: [op, ret]
                  \* (and arg, the analysis_data, for insert_analysis)
  pc,             \* cycle coordinator: where run_full_cycle stands
  runs,           \* run_full_cycle invocations so far
  new_incidents,  \* len(new_incidents) of the running cycle
  pending,        \* the rows get_pending_incidents returned to the running cycle
  idx,            \* position of the for loop in pending
  results,        \* results of run_analysis_cycle: [analyzed, errors, total_tokens]
  reply,          \* the engine's reply for pending[idx], NULL before the call
  result,         \* what analyze_incident returns for pending[idx], NULL until it returns
  engineCalls,    \* history: incident ids sent to the engine by the running cycle
  committed,      \* history: incident ids for which a cycle committed an analysis row
  s3,             \* what download_from_s3 delivers for each incident: a file or nothing
  folders,        \* the files in each incident's directory
  request,        \* prompt_parts of the latest analyze_incident call, <<>> if it sent none
  outcome,        \* the latest analyze_incident call made in one piece: the file
                  \* it read and the dict it returned
  peer            \* a second process running run_analysis_cycle on the same store:
                  \* its position, selection, loop index, engine reply, lastrowid,
                  \* counters, and the incident ids it sent to the engine

storeVars == <<incidents, analysis, processing_log, clock, analysisSeq, dirs>>
clientVars == <<cpc, carg, last>>
coordVars == <<pc, runs, new_incidents, pending, idx, results, reply, result,
               engineCalls, committed>>
fbVars == <<feedback, feedbackSeq, fbClock>>
fsVars == <<s3, folders, request, outcome, peer>>
vars == <<storeVars, clientVars, coordVars, fbVars, fsVars>>

\* ------------------------------------------------------------------ store
incident_exists(id) == \E r \in incidents : r.incident_id = id
is_incident_analyzed(id) == \E a \in analysis : a.incident_id = id

\* INSERT INTO incidents ... : the row built from the record
NewIncidentRow(rec, now) ==
  [incident_id |-> Get(rec, "incident_id"),
   cyberhaven_data |-> Get(rec, "cyberhaven_data"),
   status |-> GetOr(rec, "status", "downloaded"),
   incident_date |-> Get(rec, "incident_date"),
   downloaded_at |-> now,
   analyzed_at |-> NULL]

\* PRIMARY KEY incident_id: a second row with the id raises IntegrityError
IncidentInsertConflicts(rows, rec) ==
  \E r \in rows : r.incident_id = Get(rec, "incident_id")

\* UPDATE incidents SET status = ? (and analyzed_at when status = 'analyzed')
UpdateStatusRows(rows, id, status) ==
  { IF r.incident_id = id
      THEN [r EXCEPT !.status = status,
                     !.analyzed_at = IF status = "analyzed" THEN "stamped" ELSE @]
      ELSE r : r \in rows }

\* INSERT OR REPLACE INTO analysis: the UNIQUE(incident_id) conflict deletes the
\* old row, the new row takes a fresh AUTOINCREMENT id
NewAnalysisRow(d, id) ==
  [id |-> id,
   incident_id |-> Get(d, "incident_id"),
   gemini_verdict |-> Get(d, "gemini_verdict"),
   gemini_confidence |-> Get(d, "gemini_confidence"),
   gemini_reasoning |-> Get(d, "gemini_reasoning"),
   gemini_raw_response |-> Get(d, "gemini_raw_response"),
   executive_summary |-> Get(d, "executive_summary"),
   risk_level |-> Get(d, "risk_level"),
   processing_time |-> Get(d, "processing_time"),
   tokens_used |-> GetOr(d, "tokens_used", 0)]

\* a plain INSERT on a table without the UNIQUE(incident_id) constraint
InsertAnalysisKeepingOld(rows, d, id) == rows \cup { NewAnalysisRow(d, id) }

InsertOrReplaceAnalysis(rows, d, id) ==
  { a \in rows : a.incident_id # Get(d, "incident_id") } \cup { NewAnalysisRow(d, id) }

\* the selection without the LEFT JOIN analysis ... WHERE a.id IS NULL
PendingRowsByStatus == { r \in incidents : r.status = "downloaded" }

\* SELECT i.* FROM incidents i LEFT JOIN analysis a ON ... WHERE a.id IS NULL
\* AND i.status = 'downloaded'
PendingRows ==
  { r \in incidents : r.status = "downloaded"
                      /\ ~ \E a \in analysis : a.incident_id = r.incident_id }

\* ORDER BY downloaded_at DESC
RECURSIVE OrderByDownloadedAtDesc(_)
OrderByDownloadedAtDesc(rows) ==
  IF rows = {} THEN <<>>
  ELSE LET first == CHOOSE r \in rows :
                      \A q \in rows : r.downloaded_at >= q.downloaded_at
       IN <<first>> \o OrderByDownloadedAtDesc(rows \ {first})

\* ORDER BY downloaded_at ASC
RECURSIVE OrderByDownloadedAt(_)
OrderByDownloadedAt(rows) ==
  IF rows = {} THEN <<>>
  ELSE LET first == CHOOSE r \in rows :
                      \A q \in rows : r.downloaded_at <= q.downloaded_at
       IN <<first>> \o OrderByDownloadedAt(rows \ {first})

Min(a, b) == IF a <= b THEN a ELSE b

\* ... LIMIT ?
get_pending_incidents(limit) ==
  LET sorted == OrderByDownloadedAt(PendingRows)
  IN SubSeq(sorted, 1, Min(limit, Len(sorted)))

\* date('%Y-%m-%d') strings compare as SQLite compares text; NULL < x is not true
DateOrder == <<OldDate, "2025-06-01", NewDate>>
DateRank(d) == CHOOSE k \in 1..Len(DateOrder) : DateOrder[k] = d
DateBefore(d, limit) == d # NULL /\ DateRank(d) < DateRank(limit)
\* date_limit values of clear_old_data(days): days so large that nothing is
\* older, and the default 30 days
DateLimits == {OldDate, "2025-06-01"}

\* ------------------------------------------------------------------ store calls
\* INSERT OR REPLACE in place of INSERT: the new record takes the stored row's place
InsertIncidentRowsReplacing(rows, rec, now) ==
  { r \in rows : r.incident_id # Get(rec, "incident_id") } \cup {NewIncidentRow(rec, now)}

\* INSERT of insert_incident: IntegrityError leaves the table as it is
InsertIncidentRows(rows, rec, now) ==
  IF IncidentInsertConflicts(rows, rec) THEN rows
  ELSE rows \cup {NewIncidentRow(rec, now)}

NoCall == [op |-> "none"]

\* What the caller of a store operation is left with: download_incidents (line
\* 292) and insert_analysis (line 278) drop the value returned to them
Returned(keep, op, ret) == IF keep THEN [op |-> op, ret |-> ret] ELSE last

\* insert_incident(incident_data) -> bool
InsertIncident(rec, keep) ==
  /\ cpc = "idle"
  /\ \/ \* sqlite3.IntegrityError: the id is stored already
        /\ IncidentInsertConflicts(incidents, rec)
        /\ incidents' = InsertIncidentRows(incidents, rec, clock + 1)
        /\ last' = Returned(keep, "insert_incident", FALSE)
        /\ UNCHANGED clock
     \/ \* the row is inserted and committed
        /\ ~ IncidentInsertConflicts(incidents, rec)
        /\ clock < MaxInserts
        /\ incidents' = InsertIncidentRows(incidents, rec, clock + 1)
        /\ clock' = clock + 1
        /\ last' = Returned(keep, "insert_incident", TRUE)
     \/ \* any other sqlite3.Error: rollback
        /\ last' = Returned(keep, "insert_incident", FALSE)
        /\ UNCHANGED <<incidents, clock>>
  /\ UNCHANGED <<analysis, processing_log, analysisSeq, dirs, cpc, carg, coordVars>>
  /\ UNCHANGED <<fbVars, fsVars>>

\* update_incident_status(incident_id, status) -> bool
UpdateIncidentStatus(id, status) ==
  /\ cpc = "idle"
  /\ \/ /\ incidents' = UpdateStatusRows(incidents, id, status)
        /\ last' = [op |-> "update_incident_status", ret |-> TRUE]
     \/ \* sqlite3.Error: nothing committed
        /\ last' = [op |-> "update_incident_status", ret |-> FALSE]
        /\ UNCHANGED incidents
  /\ UNCHANGED <<analysis, processing_log, clock, analysisSeq, dirs, cpc, carg, coordVars>>
  /\ UNCHANGED <<fbVars, fsVars>>

\* insert_analysis(analysis_data), first transaction (lines 258-276)
InsertAnalysisBegin(d) ==
  /\ cpc = "idle"
  /\ \/ /\ analysisSeq < MaxAnalysisId
        /\ analysis' = InsertOrReplaceAnalysis(analysis, d, analysisSeq + 1)
        /\ analysisSeq' = analysisSeq + 1
        /\ cpc' = "status"
        /\ carg' = [op |-> "insert_analysis", data |-> d, lastrowid |-> analysisSeq + 1]
        /\ UNCHANGED last
     \/ \* sqlite3.Error: rollback, return -1, the status is never touched
        /\ last' = [op |-> "insert_analysis", ret |-> -1, arg |-> d]
        /\ UNCHANGED <<analysis, analysisSeq, cpc, carg>>
  /\ UNCHANGED <<incidents, processing_log, clock, dirs, coordVars>>
  /\ UNCHANGED <<fbVars, fsVars>>

\* insert_analysis, the call of update_incident_status (line 278) and the return
InsertAnalysisStatus ==
  /\ cpc = "status"
  /\ \/ incidents' = UpdateStatusRows(incidents, Get(carg.data, "incident_id"), "analyzed")
     \/ \* update_incident_status caught a sqlite3.Error and returned False
        UNCHANGED incidents
  /\ last' = [op |-> "insert_analysis", ret |-> carg.lastrowid, arg |-> carg.data]
  /\ cpc' = "idle"
  /\ carg' = NoCall
  /\ UNCHANGED <<analysis, processing_log, clock, analysisSeq, dirs, coordVars>>
  /\ UNCHANGED <<fbVars, fsVars>>

\* SELECT incident_id FROM incidents WHERE incident_date < ?
OldIncidentIds(rows, limit) ==
  { r.incident_id : r \in { q \in rows : DateBefore(q.incident_date, limit) } }

\* a purge that leaves the feedback table alone
KeepAllRows(rows, old) == rows

\* DELETE FROM feedback|analysis WHERE incident_id IN (SELECT ...)
DeleteRowsOf(rows, old) == { x \in rows : x.incident_id \notin old }

\* clear_old_data(days) -> (deleted_incidents, deleted_analysis, deleted_feedback)
ClearOldData(limit, keep) ==
  /\ cpc = "idle"
  /\ LET old == OldIncidentIds(incidents, limit)
     IN \/ /\ feedback' = DeleteRowsOf(feedback, old)
           /\ analysis' = DeleteRowsOf(analysis, old)
           /\ incidents' = { r \in incidents : ~ DateBefore(r.incident_date, limit) }
           /\ last' = Returned(keep, "clear_old_data",
                               <<Cardinality(incidents) - Cardinality(incidents'),
                                 Cardinality(analysis) - Cardinality(analysis'),
                                 Cardinality(feedback) - Cardinality(feedback')>>)
        \/ \* sqlite3.Error: rollback
           /\ last' = Returned(keep, "clear_old_data", <<0, 0, 0>>)
           /\ UNCHANGED <<incidents, analysis, feedback>>
  /\ UNCHANGED <<processing_log, clock, analysisSeq, dirs, cpc, carg, coordVars,
                 feedbackSeq, fbClock, fsVars>>

\* ------------------------------------------------------------------ feedback
Verdicts == {"TRUE_POSITIVE", "FALSE_POSITIVE", "REQUIRES_REVIEW"}

\* Dicts handed to insert_feedback: a correction, a confirmation, a correction
\* with a lower relevance_score, and a dict without original_verdict and
\* relevance_score.
FeedbackPayloads ==
  UNION { { [incident_id |-> i, analysis_id |-> 1, original_verdict |-> "TRUE_POSITIVE",
             corrected_verdict |-> "FALSE_POSITIVE", analyst_comment |-> "benign",
             relevance_score |-> "1.0"],
            [incident_id |-> i, analysis_id |-> 1, original_verdict |-> "TRUE_POSITIVE",
             corrected_verdict |-> "TRUE_POSITIVE", analyst_comment |-> "ok",
             relevance_score |-> "1.0"],
            [incident_id |-> i, analysis_id |-> 2, original_verdict |-> "FALSE_POSITIVE",
             corrected_verdict |-> "TRUE_POSITIVE", analyst_comment |-> "leak",
             relevance_score |-> "0.5"],
            [incident_id |-> i, analysis_id |-> 1, corrected_verdict |-> "TRUE_POSITIVE"] }
          : i \in IncidentIds }

\* INSERT INTO feedback ... : the row built from the dict
NewFeedbackRow(d, id, now) ==
  [id |-> id,
   incident_id |-> Get(d, "incident_id"),
   analysis_id |-> Get(d, "analysis_id"),
   original_verdict |-> Get(d, "original_verdict"),
   corrected_verdict |-> Get(d, "corrected_verdict"),
   analyst_comment |-> Get(d, "analyst_comment"),
   relevance_score |-> Get(d, "relevance_score"),
   created_at |-> now]

\* an insert that takes the place of the incident's earlier feedback rows
InsertFeedbackRowsReplacing(rows, d, id, now) ==
  { f \in rows : f.incident_id # Get(d, "incident_id") } \cup { NewFeedbackRow(d, id, now) }

InsertFeedbackRows(rows, d, id, now) == rows \cup { NewFeedbackRow(d, id, now) }

\* insert_feedback, the body shared by its callers: the row is committed with
\* CURRENT_TIMESTAMP (the second of the latest row, or a later one), or a
\* sqlite3.Error rolls back
StoreFeedback(d) ==
  \/ /\ feedbackSeq < MaxFeedback
     /\ \E now \in {fbClock, fbClock + 1} :
          /\ now >= 1
          /\ feedback' = InsertFeedbackRows(feedback, d, feedbackSeq + 1, now)
          /\ fbClock' = now
     /\ feedbackSeq' = feedbackSeq + 1
  \/ UNCHANGED fbVars

\* insert_feedback(feedback_data) -> bool
InsertFeedback(d, keep) ==
  /\ cpc = "idle"
  /\ StoreFeedback(d)
  /\ last' = Returned(keep, "insert_feedback", feedbackSeq' # feedbackSeq)
  /\ UNCHANGED <<storeVars, cpc, carg, coordVars, fsVars>>

\* a != b of SQLite: not true when either side is NULL
SqlNe(a, b) == a # NULL /\ b # NULL /\ a # b
\* a = b of SQLite
SqlEq(a, b) == a # NULL /\ b # NULL /\ a = b

\* the selection without WHERE f.corrected_verdict != f.original_verdict
RagRowsUnfiltered ==
  { f \in feedback : \E r \in incidents : r.incident_id = f.incident_id }

\* FROM feedback f JOIN incidents i ON f.incident_id = i.incident_id
\* WHERE f.corrected_verdict != f.original_verdict
RagRows ==
  { f \in feedback : /\ \E r \in incidents : r.incident_id = f.incident_id
                     /\ SqlNe(f.corrected_verdict, f.original_verdict) }

\* LEFT JOIN analysis a ON f.analysis_id = a.id: the columns of the returned dict
RagDict(f) ==
  [id |-> f.id, incident_id |-> f.incident_id, analysis_id |-> f.analysis_id,
   original_verdict |-> f.original_verdict, corrected_verdict |-> f.corrected_verdict,
   analyst_comment |-> f.analyst_comment, relevance_score |-> f.relevance_score,
   created_at |-> f.created_at,
   original_reasoning |->
     IF \E a \in analysis : a.id = f.analysis_id
       THEN (CHOOSE a \in analysis : a.id = f.analysis_id).gemini_reasoning
       ELSE NULL]

\* relevance_score REAL: SQLite sorts NULL below every number
ScoreOrder == <<NULL, "0.5", "1.0">>
ScoreRank(x) == CHOOSE k \in 1..Len(ScoreOrder) : ScoreOrder[k] = x

\* ascending relevance_score and oldest first
RagRanksBeforeAscending(f, g) ==
  \/ ScoreRank(f.relevance_score) < ScoreRank(g.relevance_score)
  \/ /\ ScoreRank(f.relevance_score) = ScoreRank(g.relevance_score)
     /\ f.created_at < g.created_at

\* ORDER BY f.relevance_score DESC, f.created_at DESC
RagRanksBefore(f, g) ==
  \/ ScoreRank(f.relevance_score) > ScoreRank(g.relevance_score)
  \/ /\ ScoreRank(f.relevance_score) = ScoreRank(g.relevance_score)
     /\ f.created_at > g.created_at

\* every order the sort may produce: rows equal in both keys come in any order
RECURSIVE RagOrders(_)
RagOrders(rows) ==
  IF rows = {} THEN { <<>> }
  ELSE UNION { { <<RagDict(f)>> \o t : t \in RagOrders(rows \ {f}) }
               : f \in { h \in rows : \A g \in rows : ~ RagRanksBefore(g, h) } }

\* get_feedback_for_rag(limit): the lists the call may return
get_feedback_for_rag(limit) ==
  { SubSeq(s, 1, Min(limit, Len(s))) : s \in RagOrders(RagRows) }

\* COUNT(*) FROM feedback WHERE corrected_verdict != original_verdict
CorrectedFeedbackCount ==
  Cardinality({ f \in feedback : SqlNe(f.original_verdict, f.corrected_verdict) })

\* COUNT(*) FROM feedback WHERE original_verdict = corrected_verdict
CorrectFeedbackCount ==
  Cardinality({ f \in feedback : SqlEq(f.original_verdict, f.corrected_verdict) })

\* get_database_stats lines 387-394; (correct_fb / total_fb) * 100 is kept as
\* the fraction <<numerator, denominator>>
get_database_stats ==
  [total_analyses |-> Cardinality(analysis),
   total_feedback |-> Cardinality(feedback),
   ai_accuracy |-> IF Cardinality(feedback) > 0
                     THEN <<CorrectFeedbackCount * 100, Cardinality(feedback)>>
                     ELSE <<0, 1>>]

\* feedback_cli.get_analyzed_incidents: incidents JOIN analysis
get_analyzed_incidents ==
  { [incident_id |-> a.incident_id, gemini_verdict |-> a.gemini_verdict,
     analysis_id |-> a.id] : a \in { b \in analysis : incident_exists(b.incident_id) } }

\* what the analyst answers to the prompt: yes, cancel, or the verdict chosen
Answers == {"confirm", "cancel"} \cup Verdicts

\* feedback_cli.collect_feedback(inc, db)
FeedbackCliCollect(inc, answer) ==
  /\ cpc = "idle"
  /\ inc \in get_analyzed_incidents
  /\ IF answer = "cancel"
       THEN /\ UNCHANGED fbVars
            /\ last' = [op |-> "feedback_cli", ret |-> FALSE]
       ELSE /\ StoreFeedback(
                 [incident_id |-> inc.incident_id, analysis_id |-> inc.analysis_id,
                  original_verdict |-> inc.gemini_verdict,
                  corrected_verdict |-> IF answer = "confirm" THEN inc.gemini_verdict
                                        ELSE answer,
                  analyst_comment |-> IF answer = "confirm" THEN "Confirmado por analista"
                                      ELSE "comment",
                  relevance_score |-> "1.0"])
            /\ last' = [op |-> "feedback_cli", ret |-> TRUE]
  /\ UNCHANGED <<storeVars, cpc, carg, coordVars, fsVars>>

\* the success results analyze_incident hands to analyze_incidents_menu
TriageResults ==
  { [incident_id |-> a.incident_id, analysis_id |-> a.id, verdict |-> a.gemini_verdict]
    : a \in analysis }

\* cyber_triage_cli: collect_feedback(result) and, if it returned a dict,
\* analyzer.submit_feedback(incident_id, analysis_id, **fb)
TriageCliCollect(res, answer) ==
  /\ cpc = "idle"
  /\ res \in TriageResults
  /\ answer \in {"confirm"} \cup Verdicts
  /\ IF answer = "confirm"
       THEN UNCHANGED fbVars
       ELSE StoreFeedback(
              [incident_id |-> res.incident_id, analysis_id |-> res.analysis_id,
               original_verdict |-> res.verdict, corrected_verdict |-> answer,
               analyst_comment |-> "comment", relevance_score |-> "1.0"])
  /\ last' = [op |-> "cyber_triage_cli", confirmed |-> (answer = "confirm")]
  /\ UNCHANGED <<storeVars, cpc, carg, coordVars, fsVars>>

\* ------------------------------------------------------------------ acquisition
\* event_time of the incident as the remote API lists it (extract_incident_metadata)
EventDate(id) == IF id = "INC-1" THEN OldDate ELSE NewDate

\* What the remote listing may return: the ids in any order, none twice
FetchedLists ==
  {<<>>} \cup { <<i>> : i \in IncidentIds }
         \cup { p \in IncidentIds \X IncidentIds : p[1] # p[2] }

\* ------------------------------------------------------------------ incident directories
MetadataName == "metadata.json"
ResultName == "analysis_result.json"

\* A file: its name, what reading it yields, and the length of its text
NoFile == [name |-> NULL, kind |-> "none", chars |-> 0]
MetadataFile == [name |-> MetadataName, kind |-> "json", chars |-> 40]
\* metadata.json cut short by a json.dump that raised
BrokenMetadataFile == [name |-> MetadataName, kind |-> "broken", chars |-> 3]
ResultFile == [name |-> ResultName, kind |-> "text", chars |-> 90]

\* What download_from_s3 may leave in the directory: text, an empty text file,
\* a text longer than the prompt takes, an image, an image PIL cannot open, a text file open() cannot read, and a
\* file of an extension _read_file_content does not know
S3Objects ==
  { [name |-> "report.txt", kind |-> "text", chars |-> 12],
    [name |-> "empty.txt", kind |-> "text", chars |-> 0],
    [name |-> "big.log", kind |-> "text", chars |-> 60000],
    [name |-> "shot.png", kind |-> "image", chars |-> 0],
    [name |-> "bad.png", kind |-> "badimage", chars |-> 0],
    [name |-> "locked.log", kind |-> "unreadable", chars |-> 0],
    [name |-> "blob.bin", kind |-> "binary", chars |-> 0] }

\* open(path, 'w') and the write: the file takes the place of one of its name
WriteFile(files, f) == { g \in files : g.name # f.name } \cup {f}

\* process_incident lines 181-212: metadata.json is written, then the evidence
\* file if download_from_s3 delivered one
ProcessIncidentFiles(files, id) ==
  LET withMeta == WriteFile(files, MetadataFile)
  IN IF s3[id] = NoFile THEN withMeta ELSE WriteFile(withMeta, s3[id])

\* process_incident: the record handed to insert_incident
AcquiredRecord(id) ==
  [incident_id |-> id, cyberhaven_data |-> "m1", status |-> "downloaded",
   incident_date |-> EventDate(id)]

\* download_incidents, one turn of its loop: skip a stored id, else write the
\* directory with metadata.json, insert the record and count it
DownloadOne(acc, id) ==
  IF \E r \in acc.rows : r.incident_id = id THEN acc
  ELSE [rows |-> InsertIncidentRows(acc.rows, AcquiredRecord(id), acc.clock + 1),
        clock |-> acc.clock + 1,
        dirs |-> acc.dirs \cup {id},
        folders |-> [acc.folders EXCEPT ![id] = ProcessIncidentFiles(@, id)],
        n |-> acc.n + 1]

RECURSIVE download_incidents(_, _)
download_incidents(acc, fetched) ==
  IF fetched = <<>> THEN acc
  ELSE download_incidents(DownloadOne(acc, Head(fetched)), Tail(fetched))

\* incident_dir.exists() for base_dir / incident_date / incident_id
DirExists(inc) ==
  inc.incident_id \in dirs /\ inc.incident_date = EventDate(inc.incident_id)

\* ------------------------------------------------------------------ engine
NoReply == [kind |-> "none"]
NoResult == [none |-> TRUE]
\* What model.generate_content may do: raise, or answer with a text that does
\* not parse, that lacks 'verdict', that lacks the other required keys, or that
\* is complete
EngineReplies ==
  { [kind |-> "raises"],
    [kind |-> "text", parses |-> FALSE, text |-> "oops", json |-> <<>>],
    [kind |-> "text", parses |-> TRUE, text |-> "raw-a", json |-> [confidence |-> 5]],
    [kind |-> "text", parses |-> TRUE, text |-> "raw-b",
     json |-> [verdict |-> "FALSE_POSITIVE"]],
    [kind |-> "text", parses |-> TRUE, text |-> "raw-c",
     json |-> [verdict |-> "TRUE_POSITIVE", confidence |-> 9, executive_summary |-> "s1",
               incident_context |-> "c1", reasoning |-> "r1", risk_level |-> "HIGH",
               indicators |-> "i1"]] }

\* analyze_incident lines 325-334: generate_content, json.loads, analysis['verdict']
RaisesBeforeInsert(rep) ==
  \/ rep.kind = "raises"
  \/ ~ rep.parses
  \/ "verdict" \notin DOMAIN rep.json

\* analyze_incident lines 332-339: the dict handed to insert_analysis
AnalysisData(id, rep) ==
  [incident_id |-> id,
   gemini_verdict |-> rep.json["verdict"],
   gemini_confidence |-> Get(rep.json, "confidence"),
   gemini_reasoning |-> Get(rep.json, "reasoning"),
   gemini_raw_response |-> rep.text,
   processing_time |-> 1]

\* analyze_incident lines 343-357: analysis['confidence'] ... analysis['reasoning']
RaisesAfterInsert(rep) ==
  \E k \in {"confidence", "executive_summary", "incident_context", "reasoning"} :
    k \notin DOMAIN rep.json

\* the except branch, lines 359-365
FailureResult(id) == [success |-> FALSE, error |-> "error", incident_id |-> id]

\* the dict analyze_incident returns once insert_analysis has returned
BuildResult(id, rep, analysis_id) ==
  IF RaisesAfterInsert(rep) THEN FailureResult(id)
  ELSE [success |-> TRUE, incident_id |-> id, analysis_id |-> analysis_id,
        verdict |-> rep.json["verdict"], confidence |-> rep.json["confidence"],
        executive_summary |-> rep.json["executive_summary"],
        reasoning |-> rep.json["reasoning"],
        risk_level |-> GetOr(rep.json, "risk_level", "N/A")]

\* ------------------------------------------------------------------ request
RagLimit == 5
MaxEvidenceChars == 50000

\* _build_rag_context: "" for an empty list, else one case for each row
build_rag_context(items) ==
  [k \in 1..Len(items) |->
     [original_verdict |-> items[k].original_verdict,
      corrected_verdict |-> items[k].corrected_verdict,
      analyst_comment |-> items[k].analyst_comment]]

\* The value file_content_or_image holds: None when no file was found, else
\* what _read_file_content returned: a PIL image, or a string, which is the
\* file's text or a bracketed placeholder (naming names, when it names a file)
NoFragment == [type |-> "none", text |-> NULL, names |-> NULL, chars |-> 0]
read_file_content(f) ==
  CASE f.kind = "image" ->
         [type |-> "image", text |-> NULL, names |-> f.name, chars |-> 0]
    [] f.kind = "badimage" ->
         [type |-> "str", text |-> "[ERROR cargando imagen", names |-> f.name, chars |-> 40]
    [] f.kind \in {"text", "json", "broken"} ->
         [type |-> "str", text |-> "content", names |-> NULL, chars |-> f.chars]
    [] f.kind = "unreadable" ->
         [type |-> "str", text |-> "[ERROR leyendo archivo", names |-> NULL, chars |-> 40]
    [] OTHER ->
         [type |-> "str", text |-> "[ARCHIVO BINARIO NO SOPORTADO", names |-> f.name,
          chars |-> 50]

\* the files the loop of lines 268-273 may stop at: iterdir yields the
\* directory in arbitrary order
EvidenceCandidates(files) == { f \in files : f.name # MetadataName }

\* "if file_content_or_image:" of line 289: None and "" are false
Truthy(frag) == frag.type = "image" \/ (frag.type = "str" /\ frag.chars > 0)

\* str(file_content_or_image)[:50000]
Truncated(frag) == [frag EXCEPT !.chars = Min(@, MaxEvidenceChars)]

\* the request with the learning context put after the incident facts
BuildTextContextFactsFirst(rag) ==
  <<[seg |-> "system"], [seg |-> "facts"]>>
    \o (IF rag # <<>> THEN <<[seg |-> "rag", cases |-> rag]>> ELSE <<>>)

\* lines 279-286: system prompt, learning context if not "", incident facts
BuildTextContext(rag) ==
  <<[seg |-> "system"]>>
    \o (IF rag # <<>> THEN <<[seg |-> "rag", cases |-> rag]>> ELSE <<>>)
    \o <<[seg |-> "facts"]>>

\* lines 276-311: prompt_parts
BuildPromptParts(rag, f, frag) ==
  IF Truthy(frag)
    THEN IF frag.type = "image"
           THEN << [type |-> "text",
                    segs |-> BuildTextContext(rag)
                             \o <<[seg |-> "attachment", file_name |-> f.name],
                                  [seg |-> "image_notice"]>>],
                   [type |-> "image", file_name |-> f.name],
                   [type |-> "text",
                    segs |-> <<[seg |-> "visual_instruction"],
                               [seg |-> "json_directive"]>>] >>
           ELSE << [type |-> "text",
                    segs |-> BuildTextContext(rag)
                             \o <<[seg |-> "attachment", file_name |-> f.name],
                                  [seg |-> "content", fragment |-> Truncated(frag)],
                                  [seg |-> "rule"], [seg |-> "json_directive"]>>] >>
    ELSE << [type |-> "text",
             segs |-> BuildTextContext(rag)
                      \o <<[seg |-> "no_evidence"], [seg |-> "json_directive"]>>] >>

\* line 259: the dict returned when metadata.json is not in the directory
NoMetadataResult == [success |-> FALSE, error |-> "No se encontro metadata.json"]

\* lines 343-357: the returned dict with has_file and file_name
AnalyzeResult(id, rep, analysis_id, f, frag) ==
  LET r == BuildResult(id, rep, analysis_id)
  IN IF r.success
       THEN r @@ [has_file |-> frag.type # "none", file_name |-> f.name]
       ELSE r

\* analyze_incident(incident_id, incident_dir, use_rag = True) as one call, made
\* by analyze_incidents_menu for a directory it lists or by run_analysis_cycle
\* for a pending incident; after a success run_analysis_cycle calls
\* _save_analysis_to_file
AnalyzeIncident(id, rep, caller) ==
  /\ cpc = "idle"
  /\ pc = "idle"
  /\ id \in dirs
  /\ caller = "cycle" => \E r \in PendingRows : r.incident_id = id /\ DirExists(r)
  /\ \/ \* metadata.json is not there
        /\ \A f \in folders[id] : f.name # MetadataName
        /\ outcome' = [dir |-> id, picked |-> NoFile,
                       ret |-> NoMetadataResult]
        /\ request' = <<>>
        /\ UNCHANGED <<incidents, analysis, analysisSeq, folders>>
     \/ \* json.load(f) raises
        /\ BrokenMetadataFile \in folders[id]
        /\ outcome' = [dir |-> id, picked |-> NoFile,
                       ret |-> FailureResult(id)]
        /\ request' = <<>>
        /\ UNCHANGED <<incidents, analysis, analysisSeq, folders>>
     \/ /\ MetadataFile \in folders[id]
        /\ \E f \in EvidenceCandidates(folders[id]) \cup {NoFile} :
             /\ f = NoFile <=> EvidenceCandidates(folders[id]) = {}
             /\ LET frag == IF f = NoFile THEN NoFragment ELSE read_file_content(f)
                IN \/ \* get_feedback_for_rag raises sqlite3.Error
                      /\ outcome' = [dir |-> id, picked |-> f,
                                     ret |-> FailureResult(id)]
                      /\ request' = <<>>
                      /\ UNCHANGED <<incidents, analysis, analysisSeq, folders>>
                   \/ \E items \in get_feedback_for_rag(RagLimit) :
                        /\ request' = BuildPromptParts(build_rag_context(items), f, frag)
                        /\ IF RaisesBeforeInsert(rep)
                             THEN /\ outcome' = [dir |-> id, picked |-> f,
                                                 ret |-> FailureResult(id)]
                                  /\ UNCHANGED <<incidents, analysis, analysisSeq, folders>>
                             ELSE \/ \* insert_analysis returns -1
                                     /\ outcome' =
                                          [dir |-> id, picked |-> f,
                                           ret |-> AnalyzeResult(id, rep, -1, f, frag)]
                                     /\ folders' =
                                          IF caller = "cycle" /\ outcome'.ret.success
                                            THEN [folders EXCEPT
                                                    ![id] = WriteFile(@, ResultFile)]
                                            ELSE folders
                                     /\ UNCHANGED <<incidents, analysis, analysisSeq>>
                                  \/ \* insert_analysis commits the row and updates
                                     \* the status
                                     /\ analysisSeq < MaxAnalysisId
                                     /\ analysis' = InsertOrReplaceAnalysis(
                                                      analysis, AnalysisData(id, rep),
                                                      analysisSeq + 1)
                                     /\ analysisSeq' = analysisSeq + 1
                                     /\ \/ incidents' =
                                             UpdateStatusRows(incidents, id, "analyzed")
                                        \/ UNCHANGED incidents
                                     /\ outcome' =
                                          [dir |-> id, picked |-> f,
                                           ret |-> AnalyzeResult(id, rep, analysisSeq + 1,
                                                                 f, frag)]
                                     /\ folders' =
                                          IF caller = "cycle" /\ outcome'.ret.success
                                            THEN [folders EXCEPT
                                                    ![id] = WriteFile(@, ResultFile)]
                                            ELSE folders
  /\ UNCHANGED <<processing_log, clock, dirs, clientVars, coordVars, fbVars, s3, peer>>

\* process_incident raises after incident_dir.mkdir: before metadata.json is
\* opened, or inside json.dump; download_incidents does not catch it and
\* insert_incident is never reached
ProcessIncidentRaises(id, written) ==
  /\ cpc = "idle"
  /\ pc = "idle"
  /\ ~ incident_exists(id)
  /\ dirs' = dirs \cup {id}
  /\ folders' = [folders EXCEPT ![id] = IF written THEN WriteFile(@, BrokenMetadataFile)
                                        ELSE @]
  /\ UNCHANGED <<incidents, analysis, processing_log, clock, analysisSeq, clientVars,
                 coordVars, fbVars, s3, request, outcome, peer>>

\* ------------------------------------------------------------------ cycle coordinator
ZeroResults == [analyzed |-> 0, errors |-> 0, total_tokens |-> 0]

\* run_full_cycle is entered (incident_processor.py lines 113-119)
RunFullCycle ==
  /\ pc = "idle"
  /\ runs < MaxRuns
  /\ pc' = "download"
  /\ runs' = runs + 1
  /\ UNCHANGED <<new_incidents, pending, idx, results, reply, result, engineCalls,
                 committed, storeVars, clientVars>>
  /\ UNCHANGED <<fbVars, fsVars>>

\* the frame of run_full_cycle is left: by the return or by an exception
EndCycle ==
  /\ pc' = "idle"
  /\ new_incidents' = 0
  /\ pending' = <<>>
  /\ idx' = 0
  /\ results' = ZeroResults
  /\ reply' = NoReply
  /\ result' = NoResult
  /\ engineCalls' = <<>>

\* run_download_cycle: download_incidents(hours_back, db_manager)
RunDownloadCycle(fetched) ==
  /\ pc = "download"
  /\ \/ \* no token, a failed or empty listing, or every listed incident handled
        LET done == download_incidents(
                      [rows |-> incidents, clock |-> clock, dirs |-> dirs,
                       folders |-> folders, n |-> 0], fetched)
        IN /\ done.clock <= MaxInserts
           /\ incidents' = done.rows
           /\ clock' = done.clock
           /\ dirs' = done.dirs
           /\ folders' = done.folders
           /\ new_incidents' = done.n
           /\ pc' = "select"
           /\ UNCHANGED <<runs, pending, idx, results, reply, result, engineCalls>>
     \/ \* process_incident raises for the first new incident (mkdir, open,
        \* boto3.client): nothing catches it up to run_full_cycle's caller
        /\ \E k \in 1..Len(fetched) : ~ incident_exists(fetched[k])
        /\ EndCycle
        /\ UNCHANGED <<incidents, clock, dirs, folders, runs>>
  /\ UNCHANGED <<analysis, processing_log, analysisSeq, committed, clientVars>>
  /\ UNCHANGED <<fbVars, s3, request, outcome, peer>>

\* run_analysis_cycle lines 42-53: pending = get_pending_incidents(limit)
SelectPending(limit) ==
  /\ pc = "select"
  /\ \/ /\ get_pending_incidents(limit) = <<>>
        /\ pc' = "log"
        /\ UNCHANGED <<pending, idx, new_incidents, results, reply, result,
                       engineCalls, runs>>
     \/ /\ get_pending_incidents(limit) # <<>>
        /\ pending' = get_pending_incidents(limit)
        /\ idx' = 1
        /\ pc' = "classify"
        /\ UNCHANGED <<new_incidents, results, reply, result, engineCalls, runs>>
     \/ \* sqlite3.Error in get_pending_incidents: try/finally without except
        /\ EndCycle
        /\ UNCHANGED runs
  /\ UNCHANGED <<storeVars, committed, clientVars>>
  /\ UNCHANGED <<fbVars, fsVars>>

\* the for loop moves on to the next incident, or run_analysis_cycle returns
NextIncident ==
  /\ reply' = NoReply
  /\ result' = NoResult
  /\ IF idx < Len(pending)
       THEN /\ idx' = idx + 1
            /\ pc' = "classify"
       ELSE /\ idx' = idx
            /\ pc' = "log"

\* run_analysis_cycle lines 55-70 and analyze_incident up to json.loads and
\* analysis['verdict'] (lines 253-334)
Classify(rep) ==
  /\ pc = "classify"
  /\ LET inc == pending[idx]
     IN \/ \* incident.get('incident_date', ...) is None for a NULL column and
           \* base_dir / None raises TypeError outside the try
           /\ inc.incident_date = NULL
           /\ EndCycle
           /\ UNCHANGED runs
        \/ /\ inc.incident_date # NULL
           /\ ~ DirExists(inc)
           /\ results' = [results EXCEPT !.errors = @ + 1]
           /\ NextIncident
           /\ UNCHANGED <<runs, new_incidents, pending, engineCalls>>
        \/ /\ inc.incident_date # NULL
           /\ DirExists(inc)
           /\ reply' = rep
           /\ engineCalls' = Append(engineCalls, inc.incident_id)
           /\ IF RaisesBeforeInsert(rep)
                THEN /\ result' = FailureResult(inc.incident_id)
                     /\ pc' = "result"
                ELSE /\ result' = NoResult
                     /\ pc' = "insert"
           /\ UNCHANGED <<runs, new_incidents, pending, idx, results>>
  /\ UNCHANGED <<storeVars, committed, clientVars>>
  /\ UNCHANGED <<fbVars, fsVars>>

\* analyze_incident line 341, insert_analysis first transaction (lines 258-276)
AnalysisInsert ==
  /\ pc = "insert"
  /\ LET id == pending[idx].incident_id
     IN \/ /\ analysisSeq < MaxAnalysisId
           /\ analysis' = InsertOrReplaceAnalysis(analysis, AnalysisData(id, reply),
                                                  analysisSeq + 1)
           /\ analysisSeq' = analysisSeq + 1
           /\ committed' = committed \cup {id}
           /\ result' = [analysis_id |-> analysisSeq + 1]
           /\ pc' = "status"
        \/ \* sqlite3.Error: rollback, insert_analysis returns -1 and
           \* analyze_incident goes on to build its result
           /\ result' = BuildResult(id, reply, -1)
           /\ pc' = "result"
           /\ UNCHANGED <<analysis, analysisSeq, committed>>
  /\ UNCHANGED <<incidents, processing_log, clock, dirs, clientVars, runs, new_incidents,
                 pending, idx, results, reply, engineCalls>>
  /\ UNCHANGED <<fbVars, fsVars>>

\* insert_analysis line 278, update_incident_status(incident_id, 'analyzed'), and
\* analyze_incident lines 343-365
AnalysisStatus ==
  /\ pc = "status"
  /\ LET id == pending[idx].incident_id
     IN /\ \/ incidents' = UpdateStatusRows(incidents, id, "analyzed")
           \/ \* update_incident_status caught a sqlite3.Error and returned False
              UNCHANGED incidents
        /\ result' = BuildResult(id, reply, result.analysis_id)
        /\ pc' = "result"
  /\ UNCHANGED <<analysis, processing_log, clock, analysisSeq, dirs, clientVars, runs,
                 new_incidents, pending, idx, results, reply, engineCalls,
                 committed>>
  /\ UNCHANGED <<fbVars, fsVars>>

\* run_analysis_cycle lines 72-88: the counters after analyze_incident returned
CountResult ==
  /\ pc = "result"
  /\ \/ \* success and _save_analysis_to_file wrote analysis_result.json
        /\ result.success
        /\ folders' = [folders EXCEPT ![result.incident_id] = WriteFile(@, ResultFile)]
        /\ results' = [results EXCEPT !.analyzed = @ + 1,
                                      !.total_tokens = @ + GetOr(result, "tokens_used", 0)]
     \/ \* success, and _save_analysis_to_file raised into the except branch
        /\ result.success
        /\ results' = [results EXCEPT !.errors = @ + 1]
        /\ UNCHANGED folders
     \/ /\ ~ result.success
        /\ results' = [results EXCEPT !.errors = @ + 1]
        /\ UNCHANGED folders
  /\ NextIncident
  /\ UNCHANGED <<storeVars, clientVars, runs, new_incidents, pending,
                 engineCalls, committed>>
  /\ UNCHANGED <<fbVars, s3, request, outcome, peer>>

\* run_full_cycle lines 125-146: log_processing_run(run_log) and the return
LogRun ==
  /\ pc = "log"
  /\ \/ /\ processing_log' = Append(processing_log,
              [incidents_downloaded |-> new_incidents,
               incidents_analyzed |-> results.analyzed,
               total_tokens |-> results.total_tokens,
               errors |-> results.errors])
        /\ EndCycle
     \/ \* sqlite3.Error in log_processing_run: try/finally without except
        /\ EndCycle
        /\ UNCHANGED processing_log
  /\ UNCHANGED <<incidents, analysis, clock, analysisSeq, dirs, clientVars, runs, committed>>
  /\ UNCHANGED <<fbVars, fsVars>>

\* ------------------------------------------------------------------ second process
\* the frame of run_analysis_cycle in the second process, before it is called
IdlePeer ==
  [pc |-> "idle", pending |-> <<>>, idx |-> 0, reply |-> NoReply, lastrowid |-> 0,
   results |-> ZeroResults, calls |-> <<>>]

\* run_analysis_cycle is called (lines 39-42)
PeerRunAnalysisCycle ==
  /\ peer.pc = "idle"
  /\ peer' = [IdlePeer EXCEPT !.pc = "select"]
  /\ UNCHANGED <<storeVars, clientVars, coordVars, fbVars, s3, folders, request, outcome>>

\* lines 42-53: the selection, and the return when it is empty or the query raises
PeerSelectPending(limit) ==
  /\ peer.pc = "select"
  /\ \/ /\ get_pending_incidents(limit) # <<>>
        /\ peer' = [peer EXCEPT !.pending = get_pending_incidents(limit), !.idx = 1,
                                !.pc = "classify"]
     \/ peer' = [peer EXCEPT !.pc = "idle"]
  /\ UNCHANGED <<storeVars, clientVars, coordVars, fbVars, s3, folders, request, outcome>>

\* the for loop of the second process moves on, or run_analysis_cycle returns
PeerNext(p) ==
  IF p.idx < Len(p.pending)
    THEN [p EXCEPT !.idx = @ + 1, !.pc = "classify", !.reply = NoReply]
    ELSE [p EXCEPT !.pc = "idle", !.reply = NoReply]

\* lines 55-70 and analyze_incident up to analysis['verdict']
PeerClassify(rep) ==
  /\ peer.pc = "classify"
  /\ LET inc == peer.pending[peer.idx]
     IN IF ~ DirExists(inc)
          THEN peer' = PeerNext([peer EXCEPT !.results.errors = @ + 1])
          ELSE IF RaisesBeforeInsert(rep)
            THEN peer' = PeerNext([peer EXCEPT !.results.errors = @ + 1,
                                               !.calls = Append(@, inc.incident_id)])
            ELSE peer' = [peer EXCEPT !.reply = rep, !.pc = "insert",
                                      !.calls = Append(@, inc.incident_id)]
  /\ UNCHANGED <<storeVars, clientVars, coordVars, fbVars, s3, folders, request, outcome>>

\* insert_analysis, first transaction; when it returns -1 analyze_incident
\* builds its result and run_analysis_cycle counts it
PeerAnalysisInsert ==
  /\ peer.pc = "insert"
  /\ LET id == peer.pending[peer.idx].incident_id
     IN \/ /\ analysisSeq < MaxAnalysisId
           /\ analysis' = InsertOrReplaceAnalysis(analysis, AnalysisData(id, peer.reply),
                                                  analysisSeq + 1)
           /\ analysisSeq' = analysisSeq + 1
           /\ peer' = [peer EXCEPT !.lastrowid = analysisSeq + 1, !.pc = "status"]
           /\ UNCHANGED folders
        \/ /\ UNCHANGED <<analysis, analysisSeq>>
           /\ IF BuildResult(id, peer.reply, -1).success
                THEN /\ peer' = PeerNext([peer EXCEPT !.results.analyzed = @ + 1])
                     /\ folders' = [folders EXCEPT ![id] = WriteFile(@, ResultFile)]
                ELSE /\ peer' = PeerNext([peer EXCEPT !.results.errors = @ + 1])
                     /\ UNCHANGED folders
  /\ UNCHANGED <<incidents, processing_log, clock, dirs, clientVars, coordVars, fbVars,
                 s3, request, outcome>>

\* update_incident_status, the result of analyze_incident, and lines 72-88
PeerAnalysisStatus ==
  /\ peer.pc = "status"
  /\ LET id == peer.pending[peer.idx].incident_id
     IN /\ \/ incidents' = UpdateStatusRows(incidents, id, "analyzed")
           \/ UNCHANGED incidents
        /\ IF BuildResult(id, peer.reply, peer.lastrowid).success
             THEN /\ peer' = PeerNext([peer EXCEPT !.results.analyzed = @ + 1])
                  /\ folders' = [folders EXCEPT ![id] = WriteFile(@, ResultFile)]
             ELSE /\ peer' = PeerNext([peer EXCEPT !.results.errors = @ + 1])
                  /\ UNCHANGED folders
  /\ UNCHANGED <<analysis, processing_log, clock, analysisSeq, dirs, clientVars, coordVars,
                 fbVars, s3, request, outcome>>

\* ------------------------------------------------------------------ specifications
Init ==
  /\ incidents = {}
  /\ analysis = {}
  /\ processing_log = <<>>
  /\ clock = 0
  /\ analysisSeq = 0
  /\ dirs = {}
  /\ feedback = {}
  /\ feedbackSeq = 0
  /\ fbClock = 0
  /\ cpc = "idle"
  /\ carg = NoCall
  /\ last = NoCall
  /\ pc = "idle"
  /\ runs = 0
  /\ new_incidents = 0
  /\ pending = <<>>
  /\ idx = 0
  /\ results = ZeroResults
  /\ reply = NoReply
  /\ result = NoResult
  /\ engineCalls = <<>>
  /\ committed = {}
  /\ s3 = [id \in IncidentIds |-> NoFile]
  /\ folders = [id \in IncidentIds |-> {}]
  /\ request = <<>>
  /\ outcome = NoCall
  /\ peer = IdlePeer

\* The store under any sequence of calls of its public operations
Next ==
  \/ \E rec \in IncidentRecords : InsertIncident(rec, TRUE)
  \/ \E id \in IncidentIds, st \in StatusArgs : UpdateIncidentStatus(id, st)
  \/ \E d \in AnalysisPayloads : InsertAnalysisBegin(d)
  \/ InsertAnalysisStatus
  \/ \E limit \in DateLimits : ClearOldData(limit, TRUE)

Spec == Init /\ [][Next]_vars

\* Records other programs hand to insert_incident while cycles run
CycleRecords == { rec \in IncidentRecords : Get(rec, "status") = "downloaded" }

\* The cycle coordinator, with the store shared with callers that insert and
\* purge incidents
NextCycle ==
  \/ RunFullCycle
  \/ \E fetched \in FetchedLists : RunDownloadCycle(fetched)
  \/ \E limit \in 1..MaxLimit : SelectPending(limit)
  \/ \E rep \in EngineReplies : Classify(rep)
  \/ AnalysisInsert
  \/ AnalysisStatus
  \/ CountResult
  \/ LogRun
  \/ \E rec \in CycleRecords : InsertIncident(rec, FALSE)
  \/ \E limit \in DateLimits : ClearOldData(limit, FALSE)

SpecCycle == Init /\ [][NextCycle]_vars

\* run_download_cycle called on its own: download_incidents(hours_back, db)
RunDownloadCycleAlone(fetched) ==
  /\ pc = "idle"
  /\ LET done == download_incidents(
                   [rows |-> incidents, clock |-> clock, dirs |-> dirs,
                    folders |-> folders, n |-> 0], fetched)
     IN /\ done.clock <= MaxInserts
        /\ incidents' = done.rows
        /\ clock' = done.clock
        /\ dirs' = done.dirs
        /\ folders' = done.folders
  /\ UNCHANGED <<analysis, processing_log, analysisSeq, clientVars, coordVars, fbVars,
                 s3, request, outcome, peer>>

\* run_analysis_cycle called on its own (incident_processor.py lines 39-42)
RunAnalysisCycle ==
  /\ pc = "idle"
  /\ pc' = "select"
  /\ UNCHANGED <<runs, new_incidents, pending, idx, results, reply, result, engineCalls,
                 committed, storeVars, clientVars, fbVars, fsVars>>

\* run_analysis_cycle returns results to its caller (lines 45-46 and 90-91)
ReturnAnalysisCycle ==
  /\ pc = "log"
  /\ EndCycle
  /\ UNCHANGED <<runs, committed, storeVars, clientVars, fbVars, fsVars>>

\* Analysis cycles with limit 1, run again and again over what was acquired
NextDrain ==
  \/ \E fetched \in FetchedLists : RunDownloadCycleAlone(fetched)
  \/ RunAnalysisCycle
  \/ SelectPending(1)
  \/ \E rep \in EngineReplies : Classify(rep)
  \/ AnalysisInsert
  \/ AnalysisStatus
  \/ CountResult
  \/ ReturnAnalysisCycle

\* Cycles keep being started, every started cycle runs to its return, and the
\* selection query succeeds again and again
SpecDrain ==
  /\ Init
  /\ [][NextDrain]_vars
  /\ WF_vars(RunAnalysisCycle)
  /\ SF_vars(SelectPending(1) /\ pc' # "idle")
  /\ WF_vars(\E rep \in EngineReplies : Classify(rep))
  /\ WF_vars(AnalysisInsert)
  /\ WF_vars(AnalysisStatus)
  /\ WF_vars(CountResult)
  /\ WF_vars(ReturnAnalysisCycle)

\* The feedback table under insert_feedback, while incidents are acquired and
\* purged
NextFeedback ==
  \/ \E d \in FeedbackPayloads : InsertFeedback(d, FALSE)
  \/ \E id \in IncidentIds : InsertIncident(AcquiredRecord(id), FALSE)
  \/ \E limit \in DateLimits : ClearOldData(limit, FALSE)

SpecFeedback == Init /\ [][NextFeedback]_vars

\* Analysis payloads and feedback dicts of the purge and review specifications
ReviewedAnalyses == { d \in AnalysisPayloads : "tokens_used" \in DOMAIN d }
PurgedFeedback == { d \in FeedbackPayloads : Get(d, "analyst_comment") = "benign" }

\* clear_old_data over the three tables
NextPurge ==
  \/ \E id \in IncidentIds : InsertIncident(AcquiredRecord(id), FALSE)
  \/ \E d \in ReviewedAnalyses : InsertAnalysisBegin(d)
  \/ InsertAnalysisStatus
  \/ \E d \in PurgedFeedback : InsertFeedback(d, FALSE)
  \/ \E limit \in DateLimits : ClearOldData(limit, TRUE)

SpecPurge == Init /\ [][NextPurge]_vars

\* The analyst's review in feedback_cli and in cyber_triage_cli
NextReview ==
  \/ \E id \in IncidentIds : InsertIncident(AcquiredRecord(id), FALSE)
  \/ \E d \in ReviewedAnalyses : InsertAnalysisBegin(d)
  \/ InsertAnalysisStatus
  \/ \E inc \in get_analyzed_incidents, answer \in Answers : FeedbackCliCollect(inc, answer)
  \/ \E res \in TriageResults, answer \in {"confirm"} \cup Verdicts :
       TriageCliCollect(res, answer)

SpecReview == Init /\ [][NextReview]_vars

\* Two processes run run_analysis_cycle on one store
NextPair ==
  \/ \E fetched \in FetchedLists : RunDownloadCycleAlone(fetched)
  \/ RunAnalysisCycle
  \/ \E limit \in 1..MaxLimit : SelectPending(limit)
  \/ \E rep \in EngineReplies : Classify(rep)
  \/ AnalysisInsert
  \/ AnalysisStatus
  \/ CountResult
  \/ ReturnAnalysisCycle
  \/ PeerRunAnalysisCycle
  \/ \E limit \in 1..MaxLimit : PeerSelectPending(limit)
  \/ \E rep \in EngineReplies : PeerClassify(rep)
  \/ PeerAnalysisInsert
  \/ PeerAnalysisStatus

SpecPair == Init /\ [][NextPair]_vars

\* The incident whose directory the calls of analyze_incident are followed in
AnalyzedIds == {"INC-1"}

\* Any evidence may be waiting for that incident
InitAnalyze ==
  /\ incidents = {}
  /\ analysis = {}
  /\ processing_log = <<>>
  /\ clock = 0
  /\ analysisSeq = 0
  /\ dirs = {}
  /\ feedback = {}
  /\ feedbackSeq = 0
  /\ fbClock = 0
  /\ cpc = "idle"
  /\ carg = NoCall
  /\ last = NoCall
  /\ pc = "idle"
  /\ runs = 0
  /\ new_incidents = 0
  /\ pending = <<>>
  /\ idx = 0
  /\ results = ZeroResults
  /\ reply = NoReply
  /\ result = NoResult
  /\ engineCalls = <<>>
  /\ committed = {}
  /\ s3 \in { f \in [IncidentIds -> S3Objects \cup {NoFile}] :
                    \A id \in IncidentIds \ AnalyzedIds : f[id] = NoFile }
  /\ folders = [id \in IncidentIds |-> {}]
  /\ request = <<>>
  /\ outcome = NoCall
  /\ peer = IdlePeer

\* analyze_incident over the directories the acquisition leaves, called by the
\* cycle and by the analyst's menu, with feedback coming in
NextAnalyze ==
  \/ \E id \in AnalyzedIds : RunDownloadCycleAlone(<<id>>)
  \/ \E id \in AnalyzedIds, written \in BOOLEAN : ProcessIncidentRaises(id, written)
  \/ \E d \in PurgedFeedback : Get(d, "incident_id") \in AnalyzedIds /\ InsertFeedback(d, FALSE)
  \/ \E id \in AnalyzedIds, rep \in EngineReplies, caller \in {"menu", "cycle"} :
       AnalyzeIncident(id, rep, caller)

SpecAnalyze == InitAnalyze /\ [][NextAnalyze]_vars

\* ------------------------------------------------------------------ properties
AnalysisRowsOf(id) == { a \in analysis : a.incident_id = id }
IncidentRowsOf(id) == { r \in incidents : r.incident_id = id }
\* no call of insert_analysis stands between its two transactions
Quiescent == cpc = "idle" /\ pc # "status"

\* C1: between store calls, an incident row has status 'analyzed' if and only
\* if an analysis row with its incident_id exists.
C1_StatusCoupling ==
  Quiescent =>
    \A r \in incidents : (r.status = "analyzed") <=> (AnalysisRowsOf(r.incident_id) # {})

\* C2: insert_analysis is one transaction: neither between its statements nor
\* after it has returned an id does the incident it analysed have an analysis
\* row while its status is not 'analyzed'.
C2_InsertAnalysisAtomic ==
  \A r \in incidents :
    /\ (cpc = "status" /\ Get(carg.data, "incident_id") = r.incident_id)
         => r.status = "analyzed"
    /\ (cpc = "idle" /\ last.op = "insert_analysis" /\ last.ret # -1
        /\ Get(last.arg, "incident_id") = r.incident_id)
         => r.status = "analyzed"

\* the one analysis row of d's incident carries every field d has
StoresPayload(d) ==
  LET rows == AnalysisRowsOf(Get(d, "incident_id"))
  IN /\ Cardinality(rows) = 1
     /\ \A a \in rows : \A k \in DOMAIN d : a[k] = d[k]

\* C3: no incident_id ever has two analysis rows, and once insert_analysis has
\* committed (and when it returns the row id), exactly one analysis row of the
\* incident_id exists and its fields equal the payload of that call.
C3_AtMostOneAnalysis ==
  /\ \A id \in IncidentIds : Cardinality(AnalysisRowsOf(id)) <= 1
  /\ cpc = "status" => StoresPayload(carg.data)
  /\ (cpc = "idle" /\ last.op = "insert_analysis" /\ last.ret # -1)
       => StoresPayload(last.arg)

\* C3 witness: a second insert_analysis for an incident that was never purged
\* has returned, and one row is stored
C3_Witness ==
  /\ cpc = "idle"
  /\ last.op = "insert_analysis"
  /\ last.ret = 2
  /\ clock = 1
  /\ \E r \in incidents : r.incident_date = NewDate
                          /\ r.incident_id = Get(last.arg, "incident_id")
  /\ Cardinality(analysis) = 1

\* C4: insert_incident with an incident_id that is stored returns False and
\* leaves the incidents table as it was, with one row of that id.
C4_IdempotentIntake ==
  [][ \A rec \in IncidentRecords :
        (incident_exists(rec.incident_id) /\ InsertIncident(rec, TRUE))
          => /\ last'.ret = FALSE
             /\ incidents' = incidents
             /\ Cardinality({ r \in incidents' : r.incident_id = rec.incident_id }) = 1 ]_vars

\* C4 witness: insert_incident has just returned False while every id was stored
C4_Witness ==
  /\ last.op = "insert_incident"
  /\ last.ret = FALSE
  /\ \A id \in IncidentIds : incident_exists(id)

\* C5: for every limit, get_pending_incidents returns only rows with status
\* 'downloaded' whose incident has no analysis row.
C5_PendingExclusion ==
  \A limit \in 0..MaxLimit :
    \A k \in 1..Len(get_pending_incidents(limit)) :
      LET r == get_pending_incidents(limit)[k]
      IN r.status = "downloaded" /\ AnalysisRowsOf(r.incident_id) = {}

\* C5 witness: one incident has an analysis row while its status is still
\* 'downloaded', another is pending, and only the second is returned
C5_Witness ==
  \E r \in incidents, q \in incidents :
    /\ r.status = "downloaded"
    /\ AnalysisRowsOf(r.incident_id) # {}
    /\ get_pending_incidents(MaxLimit) = <<q>>

\* the engine was called at most once for each incident_id in this cycle
NoRepeatedCall(calls) ==
  \A i \in 1..Len(calls) : \A j \in 1..Len(calls) : calls[i] = calls[j] => i = j

\* C6 as stated: the engine is called at most once per incident_id in a cycle,
\* and no cycle selects an incident for which a cycle has committed an analysis.
C6_AtMostOnceEver ==
  [][ /\ NoRepeatedCall(engineCalls')
      /\ (pc = "select" /\ pc' = "classify")
           => \A k \in 1..Len(pending') : pending'[k].incident_id \notin committed ]_vars

\* C6 amended: the engine is called at most once per incident_id in a cycle,
\* and no cycle selects, or calls the engine for, an incident for which a
\* cycle committed an analysis row that is still stored.
C6_AtMostOnceWhileStored ==
  [][ /\ NoRepeatedCall(engineCalls')
      /\ (pc = "select" /\ pc' = "classify")
           => \A k \in 1..Len(pending') :
                ~ (pending'[k].incident_id \in committed
                   /\ is_incident_analyzed(pending'[k].incident_id))
      /\ (Len(engineCalls') > Len(engineCalls))
           => ~ (pending[idx].incident_id \in committed
                 /\ is_incident_analyzed(pending[idx].incident_id)) ]_vars

\* C6 witness: a second cycle has selected its incidents while an incident
\* analysed by the first cycle is stored with its analysis row, and that
\* incident is not in the selection
C6_Witness ==
  /\ runs = 2
  /\ pc = "classify"
  /\ \E id \in committed :
       /\ incident_exists(id)
       /\ is_incident_analyzed(id)
       /\ \A k \in 1..Len(pending) : pending[k].incident_id # id

\* C7: when analyze_incident has returned success = False, the incident has no
\* analysis row and its status is 'downloaded'.
C7_FailureWritesNothing ==
  (pc = "result" /\ ~ result.success)
    => /\ AnalysisRowsOf(pending[idx].incident_id) = {}
       /\ \A r \in IncidentRowsOf(pending[idx].incident_id) : r.status = "downloaded"

\* positions of run_analysis_cycle inside its for loop
InBatch == {"classify", "insert", "status", "result"}
\* analyze_incident returned a failure, or a result built after insert_analysis
\* had returned -1
IncidentFailed(res) == IF res.success THEN res.analysis_id = -1 ELSE TRUE

\* C8: the for loop of run_analysis_cycle is left only by its return, with
\* analyzed + errors equal to the number of incidents selected, and an incident
\* that failed adds one to errors and nothing to analyzed.
C8_BatchIsolation ==
  [][ /\ (pc \in InBatch /\ pc' \notin InBatch)
           => /\ pc' = "log"
              /\ results'.analyzed + results'.errors = Len(pending')
      /\ (pc = "result" /\ pc' # "result" /\ IncidentFailed(result))
           => /\ results'.errors = results.errors + 1
              /\ results'.analyzed = results.analyzed ]_vars

\* C9: when no cycle is running, processing_log holds one row for each
\* run_full_cycle that was started.
C9_OneLogRowPerRun ==
  pc = "idle" => Len(processing_log) = runs

\* C10: every stored status is 'downloaded' or 'analyzed', and a row that is
\* 'analyzed' is 'analyzed' after every step in which it stays stored.
C10_StatusMonotonic ==
  [][ \A r \in incidents' :
        /\ r.status \in {"downloaded", "analyzed"}
        /\ \A q \in incidents :
             (q.incident_id = r.incident_id /\ q.downloaded_at = r.downloaded_at
              /\ q.status = "analyzed") => r.status = "analyzed" ]_vars

\* the ids of the rows in a returned list
ReturnedIds(res) == { res[k].id : k \in 1..Len(res) }

\* C11: for every limit, no row get_feedback_for_rag returns has
\* corrected_verdict equal to original_verdict.
C11_LearningContextFiltering ==
  \A limit \in 0..MaxLimit : \A res \in get_feedback_for_rag(limit) :
    \A k \in 1..Len(res) : res[k].corrected_verdict # res[k].original_verdict

\* C11 witness: a confirmation of a stored incident and a correction are in
\* the table, and the call returns the correction alone
C11_Witness ==
  \E f \in feedback, g \in feedback :
    /\ f.corrected_verdict = f.original_verdict
    /\ incident_exists(f.incident_id)
    /\ ReturnedIds(CHOOSE res \in get_feedback_for_rag(MaxLimit) : TRUE) = {g.id}

\* feedback rows whose two verdicts differ
Corrections == { f \in feedback : f.corrected_verdict # f.original_verdict }

ComesFirst(f, g) ==
  LET sf == IF f.relevance_score = NULL THEN "0.0" ELSE f.relevance_score
      sg == IF g.relevance_score = NULL THEN "0.0" ELSE g.relevance_score
      higher == { <<"1.0", "0.5">>, <<"1.0", "0.0">>, <<"0.5", "0.0">> }
  IN \/ <<sf, sg>> \in higher
     \/ sf = sg /\ f.created_at > g.created_at

\* C13: get_feedback_for_rag(limit) returns at most limit rows, in descending
\* relevance_score and, for equal scores, descending created_at, and no eligible
\* row it leaves out ranks before a row it returns.
C13_LearningContextOrder ==
  \A limit \in 0..MaxLimit : \A res \in get_feedback_for_rag(limit) :
    /\ Len(res) <= limit
    /\ \A i \in 1..Len(res) : \A j \in 1..Len(res) :
         i < j => /\ ~ ComesFirst(res[j], res[i])
                  /\ res[i].id # res[j].id
    /\ \A k \in 1..Len(res) : \E f \in RagRows : f.id = res[k].id
    /\ \A f \in RagRows :
         f.id \notin ReturnedIds(res)
           => /\ Len(res) = limit
              /\ \A k \in 1..Len(res) : ~ ComesFirst(f, res[k])

\* C13 witness: two corrections of different relevance_score are eligible, the
\* one stored first has the higher score, and limit 1 returns that one
C13_Witness ==
  \E f \in RagRows, g \in RagRows :
    /\ f.id < g.id
    /\ f.relevance_score = "1.0"
    /\ g.relevance_score = "0.5"
    /\ get_feedback_for_rag(1) = { <<RagDict(f)>> }

\* C14: get_pending_incidents(limit) returns min(limit, n) of the n pending
\* incidents in ascending downloaded_at order, and no pending incident it
\* leaves out was acquired before one it returns.
C14_PendingOldestFirst ==
  \A limit \in 0..MaxLimit :
    LET res == get_pending_incidents(limit)
    IN /\ Len(res) = Min(limit, Cardinality(PendingRows))
       /\ Len(res) <= limit
       /\ \A i \in 1..Len(res) : \A j \in 1..Len(res) :
            i < j => /\ res[i].downloaded_at <= res[j].downloaded_at
                     /\ res[i].incident_id # res[j].incident_id
       /\ \A k \in 1..Len(res) : res[k] \in PendingRows
       /\ \A r \in PendingRows :
            (\A k \in 1..Len(res) : res[k] # r)
              => \A k \in 1..Len(res) : ~ (r.downloaded_at < res[k].downloaded_at)

\* C14 witness: two incidents are pending and limit 1 returns the one acquired
\* first
C14_Witness ==
  \E r \in PendingRows, q \in PendingRows :
    /\ r.downloaded_at < q.downloaded_at
    /\ get_pending_incidents(1) = <<r>>

\* the incident is stored as 'downloaded' without an analysis row
IsPending(id) == \E r \in PendingRows : r.incident_id = id
\* the running cycle has the incident in its selection
IsSelected(id) == pc = "classify" /\ \E k \in 1..Len(pending) : pending[k].incident_id = id

\* C15: while analysis cycles keep running, every pending incident is
\* eventually selected by a cycle.
C15_BacklogDrain ==
  \A id \in IncidentIds : IsPending(id) ~> IsSelected(id)

\* C16: clear_old_data deletes the incidents dated before the cutoff with all
\* their analysis and feedback rows and nothing else, or deletes nothing at
\* all, and returns the numbers of rows it removed from the three tables.
C16_PurgeCascade ==
  [][ \A limit \in DateLimits :
        ClearOldData(limit, TRUE) =>
          LET gone == { r \in incidents : DateBefore(r.incident_date, limit) }
              goneIds == { r.incident_id : r \in gone }
          IN /\ \/ /\ incidents' = incidents \ gone
                   /\ analysis' = { a \in analysis : a.incident_id \notin goneIds }
                   /\ feedback' = { f \in feedback : f.incident_id \notin goneIds }
                \/ /\ incidents' = incidents
                   /\ analysis' = analysis
                   /\ feedback' = feedback
             /\ last'.ret = <<Cardinality(incidents \ incidents'),
                              Cardinality(analysis \ analysis'),
                              Cardinality(feedback \ feedback')>> ]_vars

\* C16 witness: a purge has removed one incident with its analysis row and its
\* feedback row, and rows of another incident are left in the three tables
C16_Witness ==
  /\ last.op = "clear_old_data"
  /\ last.ret = <<1, 1, 1>>
  /\ \E r \in incidents :
       /\ \E a \in analysis : a.incident_id = r.incident_id
       /\ \E f \in feedback : f.incident_id = r.incident_id

\* C17: ai_accuracy is 0 for an empty feedback table and otherwise K/N * 100,
\* N the number of feedback rows and K the number of those whose two verdicts
\* are equal; it lies between 0 and 100.
C17_Accuracy ==
  LET N == Cardinality(feedback)
      K == Cardinality({ f \in feedback : f.corrected_verdict = f.original_verdict })
      acc == get_database_stats.ai_accuracy
  IN /\ N = 0 => acc = <<0, 1>>
     /\ N > 0 => acc = <<K * 100, N>>
     /\ 0 <= acc[1]
     /\ acc[1] <= 100 * acc[2]

\* C17 witness: one confirmation and one correction are stored: accuracy 100/2
C17_Witness ==
  /\ get_database_stats.ai_accuracy = <<100, 2>>
  /\ Corrections # {}

\* C18: insert_feedback adds one feedback row, or none when the store fails,
\* and leaves every other feedback row and every analysis and incident row as
\* it was.
C18_FeedbackAppendOnly ==
  [][ \A d \in FeedbackPayloads :
        InsertFeedback(d, FALSE) =>
          /\ feedback \subseteq feedback'
          /\ Cardinality(feedback' \ feedback) = 1
          /\ \A f \in feedback' \ feedback : \A k \in DOMAIN d : f[k] = d[k]
          /\ analysis' = analysis
          /\ incidents' = incidents ]_vars

\* C18 witness: two feedback rows of one incident are stored next to its
\* analysis row
C18_Witness ==
  \E f \in feedback, g \in feedback, a \in analysis :
    /\ f.id # g.id
    /\ f.incident_id = g.incident_id
    /\ a.incident_id = f.incident_id
    /\ incident_exists(f.incident_id)

\* C19: an analyst's confirmation, in feedback_cli or after an analysis in
\* cyber_triage_cli, stores a feedback row of that incident whose
\* corrected_verdict equals its original_verdict.
C19_ConfirmationRecorded ==
  [][ /\ \A inc \in get_analyzed_incidents :
           FeedbackCliCollect(inc, "confirm") =>
             \E f \in feedback' \ feedback :
               /\ f.incident_id = inc.incident_id
               /\ f.corrected_verdict = f.original_verdict
      /\ \A res \in TriageResults :
           TriageCliCollect(res, "confirm") =>
             \E f \in feedback' \ feedback :
               /\ f.incident_id = res.incident_id
               /\ f.corrected_verdict = f.original_verdict ]_vars

\* C20: when analyze_incident has returned success, the store holds an analysis
\* row of the incident with the returned verdict and the incident's status is
\* 'analyzed'.
C20_SuccessIsPersisted ==
  (pc = "result" /\ result.success)
    => /\ \E a \in AnalysisRowsOf(result.incident_id) : a.gemini_verdict = result.verdict
       /\ \A r \in IncidentRowsOf(result.incident_id) : r.status = "analyzed"

\* C21: when analyze_incident has returned success, the incident's analysis row
\* holds the engine's reply verbatim and the verdict, confidence, reasoning,
\* executive_summary and risk_level of the returned result.
C21_RowReproducesVerdict ==
  (pc = "result" /\ result.success)
    => \E a \in AnalysisRowsOf(result.incident_id) :
         /\ a.gemini_raw_response = reply.text
         /\ a.gemini_verdict = result.verdict
         /\ a.gemini_confidence = result.confidence
         /\ a.gemini_reasoning = result.reasoning
         /\ a.executive_summary = result.executive_summary
         /\ a.risk_level = result.risk_level

\* analyze_incident has returned
Analyzed == "ret" \in DOMAIN outcome

\* C22: every result of analyze_incident with success = False carries an error
\* string and the incident_id it was called with.
C22_FailureNamesIncident ==
  (Analyzed /\ ~ outcome.ret.success)
    => /\ "error" \in DOMAIN outcome.ret
       /\ "incident_id" \in DOMAIN outcome.ret
       /\ outcome.ret.incident_id = outcome.dir

\* a call of analyze_incident is made in this step
AnalyzeCall ==
  \E id \in AnalyzedIds, rep \in EngineReplies, caller \in {"menu", "cycle"} :
    AnalyzeIncident(id, rep, caller)
\* the names of the segments of a text part, in order
SegNames(part) == [i \in 1..Len(part.segs) |-> part.segs[i].seg]
\* corrections of stored incidents exist: the learning context is not empty
HasLearning ==
  \E f \in feedback : f.corrected_verdict # f.original_verdict
                       /\ incident_exists(f.incident_id)
\* what precedes the evidence: instructions, learning context if any, facts
ExpectedHead ==
  <<"system">> \o (IF HasLearning THEN <<"rag">> ELSE <<>>) \o <<"facts">>

\* C23: every request analyze_incident sends is: system instructions, the
\* learning context if and only if it is not empty, the incident facts, then
\* the evidence section or the no-evidence directive; an opened image is a
\* part of its own right after the text announcing it and is followed by a
\* part with the visual instruction; the last part ends with the directive
\* asking for the JSON reply.
C23_RequestOrder ==
  [][ request' # <<>> =>
        LET parts == request'
            f == outcome'.picked
            final == parts[Len(parts)]
        IN \/ /\ final.type = "text"
              /\ SegNames(final)[Len(final.segs)] = "json_directive"
              /\ IF f.kind = "image"
                   THEN /\ Len(parts) = 3
                        /\ parts[1].type = "text"
                        /\ SegNames(parts[1])
                             = ExpectedHead \o <<"attachment", "image_notice">>
                        /\ parts[2] = [type |-> "image", file_name |-> f.name]
                        /\ SegNames(parts[3]) = <<"visual_instruction", "json_directive">>
                   ELSE /\ Len(parts) = 1
                        /\ \/ SegNames(parts[1])
                                = ExpectedHead
                                  \o <<"attachment", "content", "rule", "json_directive">>
                           \/ SegNames(parts[1])
                                = ExpectedHead \o <<"no_evidence", "json_directive">>
                        /\ (f # NoFile /\ f.kind # "text")
                             => SegNames(parts[1])[Len(ExpectedHead) + 1] = "attachment"
                        /\ (f.kind = "text" /\ f.chars > 0)
                             => /\ SegNames(parts[1])[Len(ExpectedHead) + 1] = "attachment"
                                /\ parts[1].segs[Len(ExpectedHead) + 2].fragment.chars
                                     = Min(f.chars, MaxEvidenceChars)
           \/ \* the step is not a call of analyze_incident
              ~ AnalyzeCall ]_vars

\* C23 witness: a request with an image part and a learning context was sent
C23_Witness ==
  /\ Len(request) = 3
  /\ request[2].type = "image"
  /\ SegNames(request[1])[2] = "rag"
  /\ Len(request[1].segs[2].cases) = 2

\* the request holds a text segment of this name
HasSegment(name) ==
  \E k \in 1..Len(request) :
    /\ request[k].type = "text"
    /\ \E i \in 1..Len(request[k].segs) : request[k].segs[i].seg = name
\* the request holds the evidence section of the file of this name
HasEvidenceOf(name) ==
  \E k \in 1..Len(request) :
    /\ request[k].type = "text"
    /\ \E i \in 1..Len(request[k].segs) :
         /\ request[k].segs[i].seg = "attachment"
         /\ request[k].segs[i].file_name = name

\* C24: a request carries the no-evidence directive if and only if
\* analyze_incident found no file in the directory, and when the result has
\* has_file = True the request carries the evidence section of that file and
\* not the directive.
C24_NoEvidenceDirective ==
  (Analyzed /\ request # <<>>)
    => /\ HasSegment("no_evidence") <=> outcome.picked = NoFile
       /\ (outcome.ret.success /\ outcome.ret.has_file)
            => /\ HasEvidenceOf(outcome.ret.file_name)
               /\ ~ HasSegment("no_evidence")

\* the engine answered with JSON that has every required field
ValidReply(rep) ==
  /\ rep.kind = "text"
  /\ rep.parses
  /\ {"verdict", "confidence", "executive_summary", "incident_context", "reasoning"}
       \subseteq DOMAIN rep.json
\* files _read_file_content cannot encode: unknown extension, image that
\* does not open
Unencodable(f) == f.kind \in {"binary", "badimage"}

\* C25: for a file it cannot encode _read_file_content returns a placeholder
\* string naming the file, the request analyze_incident sends carries that
\* file's section, and when the engine's reply is valid the call returns
\* success = True and the incident's analysis row is committed.
C25_EncodingNeverBlocks ==
  [][ \A id \in AnalyzedIds, rep \in EngineReplies, caller \in {"menu", "cycle"} :
        (AnalyzeIncident(id, rep, caller) /\ Unencodable(outcome'.picked)
         /\ request' # <<>>)
          => /\ read_file_content(outcome'.picked).type = "str"
             /\ read_file_content(outcome'.picked).names = outcome'.picked.name
             /\ \E i \in 1..Len(request'[1].segs) :
                  /\ request'[1].segs[i].seg = "content"
                  /\ request'[1].segs[i].fragment.names = outcome'.picked.name
             /\ ValidReply(rep)
                  => /\ outcome'.ret.success
                     /\ \E a \in analysis' : /\ a.incident_id = id
                                              /\ a.id = outcome'.ret.analysis_id
                                              /\ a.gemini_raw_response = rep.text ]_vars

\* C26: when insert_incident has returned True, the row it inserted has status
\* 'downloaded' and, having no analysis row, is pending.
C26_InsertedAsDownloaded ==
  (cpc = "idle" /\ last.op = "insert_incident" /\ last.ret = TRUE)
    => \A r \in incidents :
         r.downloaded_at = clock
           => /\ r.status = "downloaded"
              /\ AnalysisRowsOf(r.incident_id) = {} => r \in PendingRows

\* C27: every feedback row's analysis_id is the id of a stored analysis row of
\* the feedback row's incident_id.
C27_FeedbackReferences ==
  \A f \in feedback :
    \E a \in analysis : a.id = f.analysis_id /\ a.incident_id = f.incident_id

\* the incidents the cycle selected
SelectedIds == { pending[k].incident_id : k \in 1..Len(pending) }
\* the incident has an analysis row and status 'analyzed'
IsAnalyzed(id) ==
  /\ AnalysisRowsOf(id) # {}
  /\ \E r \in IncidentRowsOf(id) : r.status = "analyzed"

\* C28: when run_analysis_cycle returns, its 'analyzed' count is the number of
\* selected incidents that have an analysis row and status 'analyzed', and its
\* 'errors' count is the number of selected incidents that are still pending.
C28_RunAccounting ==
  pc = "log"
    => /\ results.analyzed = Cardinality({ id \in SelectedIds : IsAnalyzed(id) })
       /\ results.errors = Cardinality({ id \in SelectedIds : IsPending(id) })

\* C29: while the run_analysis_cycle executions of the two processes overlap,
\* no incident_id has been sent to the engine by both, and no incident_id ever
\* has two analysis rows.
C29_NoDoubleClassification ==
  /\ (pc # "idle" /\ peer.pc # "idle")
       => \A i \in 1..Len(engineCalls) : \A j \in 1..Len(peer.calls) :
            engineCalls[i] # peer.calls[j]
  /\ \A id \in IncidentIds : Cardinality(AnalysisRowsOf(id)) <= 1

\* C30: the file analyze_incident reads as evidence is never metadata.json and
\* never analysis_result.json, and the request carries the section of neither.
C30_EvidenceIsTheArtifact ==
  Analyzed
    => /\ outcome.picked.name \notin {MetadataName, ResultName}
       /\ ~ HasEvidenceOf(MetadataName)
       /\ ~ HasEvidenceOf(ResultName)

====
